---------------------------- MODULE Spec2Model ----------------------------
(***************************************************************************)
(* The option registry of python/cudf/cudf/options.py: a module-level      *)
(* dict _OPTIONS from option name to Option(default, value, description,   *)
(* validator), with _register_option, get_option, set_option and           *)
(* describe_option.  Every call is one atomic step (the module is          *)
(* single-threaded, synchronous code).                                     *)
(***************************************************************************)
EXTENDS Integers, Sequences, FiniteSets, TLC

VARIABLES
    _OPTIONS,   \* the dict _OPTIONS as a mapping: name -> Option record
    keys,      \* _OPTIONS' insertion order (what .items() iterates over)
    call       \* the most recent call: its arguments and what the caller saw

vars == <<_OPTIONS, keys, call>>

(***************************************************************************)
(* Inputs.                                                                 *)
(***************************************************************************)
\* Python's None (an omitted name, a function that returns nothing)
None == "None"

INT_NAME == "default_integer_bitwidth"
FLOAT_NAME == "default_float_bitwidth"

INT_DESCRIPTION ==
    "Default integer bitwidth when inferring integer column or scalars."
    \o "Influences integer column bitwidth for csv, json readers if unspecified "
    \o "and integer column bitwidth constructed from python scalar and lists. "
    \o "Valid values are 32 or 64."

FLOAT_DESCRIPTION ==
    "Default float bitwidth when inferring float column or scalars."
    \o "Influences float column bitwidth for csv, json readers if unspecified "
    \o "and float column bitwidth constructed from python scalar and lists. "
    \o "Valid values are 32 or 64."

\* names callers use: the two built-in options and one the module never registers
Names == {INT_NAME, FLOAT_NAME, "extra_option"}

\* names _register_option is called with after import: a built-in option (the two
\* are registered alike, so re-registering one covers the other) and a new name
RegisterNames == {INT_NAME, "extra_option"}

\* candidate values: the two valid bitwidths and one invalid one
Values == {16, 32, 64}

Descriptions == {INT_DESCRIPTION, FLOAT_DESCRIPTION}

\* The validators handed to _register_option.  LAMBDA_IN_32_64 is the one the
\* module itself passes, `lambda x: x in [32, 64]`, which RETURNS its verdict.
\* RAISE_UNLESS_IN_32_64 and RAISE_UNLESS_IN_16_32 are validators of the kind
\* _register_option's docstring asks for: they raise ValueError on an invalid
\* value and return None otherwise.
LAMBDA_IN_32_64 == "lambda x: x in [32, 64]"
RAISE_UNLESS_IN_32_64 == "raise ValueError unless x in [32, 64]"
RAISE_UNLESS_IN_16_32 == "raise ValueError unless x in [16, 32]"

Validators == {LAMBDA_IN_32_64, RAISE_UNLESS_IN_32_64, RAISE_UNLESS_IN_16_32}

\* the values a validator is written to allow
valid_values(validator) ==
    IF validator = RAISE_UNLESS_IN_16_32 THEN {16, 32} ELSE {32, 64}

\* whether the call validator(x) raises
validator_raises(validator, x) ==
    /\ validator # LAMBDA_IN_32_64
    /\ x \notin valid_values(validator)

\* what the call validator(x) returns when it does not raise
validator_returns(validator, x) ==
    IF validator = LAMBDA_IN_32_64
    THEN (IF x \in valid_values(validator) THEN "True" ELSE "False")
    ELSE None

\* The validator's verdict on x: it accepts x when it neither raises nor
\* returns False.
Accepts(validator, x) ==
    /\ ~validator_raises(validator, x)
    /\ validator_returns(validator, x) # "False"

(***************************************************************************)
(* The Option dataclass and the call record.                               *)
(***************************************************************************)
Option(default, value, description, validator) ==
    [default |-> default, value |-> value,
     description |-> description, validator |-> validator]

\* the `value` field of name's entry before a call, <<>> when there is none
value_of(name) ==
    IF name \in DOMAIN _OPTIONS THEN <<_OPTIONS[name].value>> ELSE <<>>

\* What a call looked like from outside: op(name, val, description, validator),
\* how it ended (outcome: "ok" or the exception raised), the value returned
\* (ret: <<v>>, or <<>> for None), the text printed (out), and the `value` field
\* of name's entry when the call started (before).
Call(op, name, val, description, validator, outcome, ret, out) ==
    [op |-> op, name |-> name, val |-> val, description |-> description,
     validator |-> validator, outcome |-> outcome, ret |-> ret, out |-> out,
     before |-> value_of(name)]

(***************************************************************************)
(* _register_option(name, default_value, description, validator)           *)
(***************************************************************************)
\* Faulty variant: re-registering keeps the value the old entry held.
register_option_keeps_value(name, default_value, description, validator) ==
    IF validator_raises(validator, default_value)
    THEN /\ call' = Call("_register_option", name, <<default_value>>,
                         description, validator, "ValueError", <<>>, "")
         /\ UNCHANGED <<_OPTIONS, keys>>
    ELSE /\ _OPTIONS' = [n \in DOMAIN _OPTIONS \cup {name} |->
                          IF n = name
                          THEN Option(default_value,
                                      IF name \in DOMAIN _OPTIONS
                                      THEN _OPTIONS[name].value
                                      ELSE default_value,
                                      description, validator)
                          ELSE _OPTIONS[n]]
         /\ keys' = IF name \in DOMAIN _OPTIONS THEN keys ELSE Append(keys, name)
         /\ call' = Call("_register_option", name, <<default_value>>,
                         description, validator, "ok", <<>>, "")

\* Faulty variant: a name that is already registered is left alone
\* (_OPTIONS.setdefault instead of an assignment).
register_option_if_absent(name, default_value, description, validator) ==
    IF validator_raises(validator, default_value)
    THEN /\ call' = Call("_register_option", name, <<default_value>>,
                         description, validator, "ValueError", <<>>, "")
         /\ UNCHANGED <<_OPTIONS, keys>>
    ELSE /\ _OPTIONS' = [n \in DOMAIN _OPTIONS \cup {name} |->
                          IF n \in DOMAIN _OPTIONS
                          THEN _OPTIONS[n]
                          ELSE Option(default_value, default_value,
                                      description, validator)]
         /\ keys' = IF name \in DOMAIN _OPTIONS THEN keys ELSE Append(keys, name)
         /\ call' = Call("_register_option", name, <<default_value>>,
                         description, validator, "ok", <<>>, "")

_register_option(name, default_value, description, validator) ==
    IF validator_raises(validator, default_value)
    THEN /\ call' = Call("_register_option", name, <<default_value>>,
                         description, validator, "ValueError", <<>>, "")
         /\ UNCHANGED <<_OPTIONS, keys>>
    ELSE /\ _OPTIONS' = [n \in DOMAIN _OPTIONS \cup {name} |->
                          IF n = name
                          THEN Option(default_value, default_value,
                                      description, validator)
                          ELSE _OPTIONS[n]]
         /\ keys' = IF name \in DOMAIN _OPTIONS THEN keys ELSE Append(keys, name)
         /\ call' = Call("_register_option", name, <<default_value>>,
                         description, validator, "ok", <<>>, "")

(***************************************************************************)
(* get_option(name)                                                        *)
(***************************************************************************)
\* Faulty variant: returns the `default` field instead of `value`.
get_option_returns_default(name) ==
    /\ call' = IF name \in DOMAIN _OPTIONS
               THEN Call("get_option", name, <<>>, "", "", "ok",
                         <<_OPTIONS[name].default>>, "")
               ELSE Call("get_option", name, <<>>, "", "", "KeyError", <<>>, "")
    /\ UNCHANGED <<_OPTIONS, keys>>

get_option(name) ==
    /\ call' = IF name \in DOMAIN _OPTIONS
               THEN Call("get_option", name, <<>>, "", "", "ok",
                         <<_OPTIONS[name].value>>, "")
               ELSE Call("get_option", name, <<>>, "", "", "KeyError", <<>>, "")
    /\ UNCHANGED <<_OPTIONS, keys>>

(***************************************************************************)
(* set_option(name, val)                                                   *)
(***************************************************************************)
\* Faulty variant: an unknown name gets an entry instead of a KeyError.
set_option_creates_entry(name, val) ==
    IF name \notin DOMAIN _OPTIONS
    THEN /\ _OPTIONS' = [n \in DOMAIN _OPTIONS \cup {name} |->
                          IF n = name
                          THEN Option(val, val, "", LAMBDA_IN_32_64)
                          ELSE _OPTIONS[n]]
         /\ keys' = Append(keys, name)
         /\ call' = Call("set_option", name, <<val>>, "", "", "ok", <<>>, "")
    ELSE IF validator_raises(_OPTIONS[name].validator, val)
    THEN /\ call' = Call("set_option", name, <<val>>, "", "", "ValueError", <<>>, "")
         /\ UNCHANGED <<_OPTIONS, keys>>
    ELSE /\ _OPTIONS' = [_OPTIONS EXCEPT ![name].value = val]
         /\ call' = Call("set_option", name, <<val>>, "", "", "ok", <<>>, "")
         /\ UNCHANGED keys

\* Faulty variant: the value being replaced is kept as the new default.
set_option_shifts_default(name, val) ==
    IF name \notin DOMAIN _OPTIONS
    THEN /\ call' = Call("set_option", name, <<val>>, "", "", "KeyError", <<>>, "")
         /\ UNCHANGED <<_OPTIONS, keys>>
    ELSE IF validator_raises(_OPTIONS[name].validator, val)
    THEN /\ call' = Call("set_option", name, <<val>>, "", "", "ValueError", <<>>, "")
         /\ UNCHANGED <<_OPTIONS, keys>>
    ELSE /\ _OPTIONS' = [_OPTIONS EXCEPT ![name].default = _OPTIONS[name].value,
                                         ![name].value = val]
         /\ call' = Call("set_option", name, <<val>>, "", "", "ok", <<>>, "")
         /\ UNCHANGED keys

\* Faulty variant: every entry that shares name's validator gets the value (one
\* Option object shared between registrations).
set_option_shared_entry(name, val) ==
    IF name \notin DOMAIN _OPTIONS
    THEN /\ call' = Call("set_option", name, <<val>>, "", "", "KeyError", <<>>, "")
         /\ UNCHANGED <<_OPTIONS, keys>>
    ELSE IF validator_raises(_OPTIONS[name].validator, val)
    THEN /\ call' = Call("set_option", name, <<val>>, "", "", "ValueError", <<>>, "")
         /\ UNCHANGED <<_OPTIONS, keys>>
    ELSE /\ _OPTIONS' = [n \in DOMAIN _OPTIONS |->
                          IF _OPTIONS[n].validator = _OPTIONS[name].validator
                          THEN [_OPTIONS[n] EXCEPT !.value = val]
                          ELSE _OPTIONS[n]]
         /\ call' = Call("set_option", name, <<val>>, "", "", "ok", <<>>, "")
         /\ UNCHANGED keys

set_option(name, val) ==
    IF name \notin DOMAIN _OPTIONS
    THEN /\ call' = Call("set_option", name, <<val>>, "", "", "KeyError", <<>>, "")
         /\ UNCHANGED <<_OPTIONS, keys>>
    ELSE IF validator_raises(_OPTIONS[name].validator, val)
    THEN /\ call' = Call("set_option", name, <<val>>, "", "", "ValueError", <<>>, "")
         /\ UNCHANGED <<_OPTIONS, keys>>
    ELSE /\ _OPTIONS' = [_OPTIONS EXCEPT ![name].value = val]
         /\ call' = Call("set_option", name, <<val>>, "", "", "ok", <<>>, "")
         /\ UNCHANGED keys

(***************************************************************************)
(* _build_option_description(name, opt) and describe_option(name)          *)
(***************************************************************************)
_build_option_description(name, opt) ==
    name \o ":\n"
    \o "\t" \o opt.description \o "\n"
    \o "\t[Default: " \o ToString(opt.default)
    \o "] [Current: " \o ToString(opt.value) \o "]"

\* "\n".join(_build_option_description(name, opt) for name, opt in items)
RECURSIVE join_descriptions(_)
join_descriptions(ks) ==
    IF ks = <<>> THEN ""
    ELSE IF Len(ks) = 1 THEN _build_option_description(ks[1], _OPTIONS[ks[1]])
    ELSE _build_option_description(ks[1], _OPTIONS[ks[1]])
         \o "\n" \o join_descriptions(Tail(ks))

\* print(s) writes s and a newline
print(s) == s \o "\n"

describe_option(name) ==
    /\ call' =
         IF name = None
         THEN Call("describe_option", name, <<>>, "", "", "ok", <<>>,
                   print(join_descriptions(keys)))
         ELSE IF name \in DOMAIN _OPTIONS
         THEN Call("describe_option", name, <<>>, "", "", "ok", <<>>,
                   print(_build_option_description(name, _OPTIONS[name])))
         ELSE Call("describe_option", name, <<>>, "", "", "KeyError", <<>>, "")
    /\ UNCHANGED <<_OPTIONS, keys>>

(***************************************************************************)
(* The state after `import`: the two module-level registrations.           *)
(***************************************************************************)
Init ==
    /\ _OPTIONS = [n \in {INT_NAME, FLOAT_NAME} |->
                    Option(64, 64,
                           IF n = INT_NAME THEN INT_DESCRIPTION
                                           ELSE FLOAT_DESCRIPTION,
                           LAMBDA_IN_32_64)]
    /\ keys = <<INT_NAME, FLOAT_NAME>>
    /\ call = [op |-> "import", name |-> None, val |-> <<>>, description |-> "",
               validator |-> "", outcome |-> "ok", ret |-> <<>>, out |-> "",
               before |-> <<>>]

Next ==
    \/ \E name \in RegisterNames, default_value \in Values,
          description \in Descriptions, validator \in Validators :
          _register_option(name, default_value, description, validator)
    \/ \E name \in Names : get_option(name)
    \/ \E name \in Names, val \in Values : set_option(name, val)
    \/ \E name \in Names \cup {None} : describe_option(name)

Spec == Init /\ [][Next]_vars

(***************************************************************************)
(* Helpers of the properties.                                              *)
(***************************************************************************)
BUILTIN_NAMES == {INT_NAME, FLOAT_NAME}

PUBLIC_OPS == {"get_option", "set_option", "describe_option"}

\* sub occurs in s
Contains(s, sub) ==
    \E i \in 1..(Len(s) - Len(sub) + 1) : SubSeq(s, i, i + Len(sub) - 1) = sub

\* the registry holds exactly the module's two options, both with default 64
BuiltinsOnly ==
    /\ DOMAIN _OPTIONS = BUILTIN_NAMES
    /\ \A n \in BUILTIN_NAMES : _OPTIONS[n].default = 64

(***************************************************************************)
(* C1: every registered option's current value is accepted by that         *)
(* option's own validator (for the built-in validator: it is 32 or 64).    *)
(***************************************************************************)
C1_ValueAcceptedByValidator ==
    \A n \in DOMAIN _OPTIONS :
        Accepts(_OPTIONS[n].validator, _OPTIONS[n].value)

(***************************************************************************)
(* C2: set_option(n, v) on a registered n with a v that n's validator      *)
(* rejects fails with the invalid-value error and leaves n's value as it   *)
(* was before the call.                                                    *)
(***************************************************************************)
C2_RejectedSetFails ==
    ( /\ call.op = "set_option"
      /\ call.name \in DOMAIN _OPTIONS
      /\ ~Accepts(_OPTIONS[call.name].validator, call.val[1]) )
    => ( /\ call.outcome = "ValueError"
         /\ <<_OPTIONS[call.name].value>> = call.before )

(***************************************************************************)
(* C3: set_option(n, v) on a registered n with an accepted v succeeds and  *)
(* stores v; get_option(n) returns the stored value; and the stored value  *)
(* of n changes only in a successful set_option(n, .) or register of n.    *)
(* So every get_option(n) up to the next such call returns v.              *)
(***************************************************************************)
C3_Step ==
    /\ ( /\ call'.op = "set_option"
         /\ call'.name \in DOMAIN _OPTIONS
         /\ Accepts(_OPTIONS[call'.name].validator, call'.val[1]) )
       => ( /\ call'.outcome = "ok"
            /\ _OPTIONS'[call'.name].value = call'.val[1] )
    /\ (call'.op = "get_option" /\ call'.name \in DOMAIN _OPTIONS)
       => ( /\ call'.outcome = "ok"
            /\ call'.ret = <<_OPTIONS[call'.name].value>>
            /\ call'.ret = <<_OPTIONS'[call'.name].value>> )
    /\ \A n \in DOMAIN _OPTIONS :
         (n \notin DOMAIN _OPTIONS' \/ _OPTIONS'[n].value # _OPTIONS[n].value)
         => ( /\ call'.op \in {"set_option", "_register_option"}
              /\ call'.name = n
              /\ call'.outcome = "ok" )

C3_WriteThenRead == [][C3_Step]_vars

\* a get_option that returned 32 for an option whose default is 64: the 32 was
\* written by an earlier set_option
C3_Witness ==
    /\ call.op = "get_option"
    /\ call.outcome = "ok"
    /\ call.ret = <<32>>
    /\ _OPTIONS[call.name].default = 64
    /\ Accepts(_OPTIONS[call.name].validator, 32)

(***************************************************************************)
(* C4: get_option, set_option and describe_option on a name that is not    *)
(* registered fail with the unknown-option error (KeyError) and leave the  *)
(* registry, names and entries, as it was.                                 *)
(***************************************************************************)
C4_Step ==
    ( /\ call'.op \in PUBLIC_OPS
      /\ call'.name # None
      /\ call'.name \notin DOMAIN _OPTIONS )
    => ( /\ call'.outcome = "KeyError"
         /\ _OPTIONS' = _OPTIONS
         /\ keys' = keys )

C4_UnknownNameFails == [][C4_Step]_vars

\* a set_option on an unregistered name has just failed
C4_Witness ==
    /\ call.op = "set_option"
    /\ call.name \notin DOMAIN _OPTIONS
    /\ call.outcome = "KeyError"

(***************************************************************************)
(* C5: after a successful register(n, d, ..) the entry of n has default =  *)
(* value = d, and a get_option(n) that follows it returns d; get_option on *)
(* either built-in option in the state right after import returns 64.      *)
(***************************************************************************)
C5_Step ==
    /\ (call'.op = "_register_option" /\ call'.outcome = "ok")
       => ( /\ call'.name \in DOMAIN _OPTIONS'
            /\ _OPTIONS'[call'.name].default = call'.val[1]
            /\ _OPTIONS'[call'.name].value = call'.val[1] )
    /\ ( /\ call.op = "_register_option"
         /\ call.outcome = "ok"
         /\ call'.op = "get_option"
         /\ call'.name = call.name )
       => (call'.outcome = "ok" /\ call'.ret = call.val)
    /\ ( /\ call.op = "import"
         /\ call'.op = "get_option"
         /\ call'.name \in BUILTIN_NAMES )
       => (call'.outcome = "ok" /\ call'.ret = <<64>>)

C5_DefaultAfterRegister == [][C5_Step]_vars

\* a register has just replaced an entry whose value was not the new default
C5_Witness ==
    /\ call.op = "_register_option"
    /\ call.outcome = "ok"
    /\ call.before # <<>>
    /\ call.before # call.val
    /\ _OPTIONS[call.name].value = call.val[1]

(***************************************************************************)
(* C6: a register whose default value its validator does not accept fails  *)
(* with the invalid-default error and leaves the registry as it was.       *)
(***************************************************************************)
C6_Step ==
    ( /\ call'.op = "_register_option"
      /\ ~Accepts(call'.validator, call'.val[1]) )
    => ( /\ call'.outcome = "ValueError"
         /\ _OPTIONS' = _OPTIONS
         /\ keys' = keys )

C6_InvalidDefaultRejected == [][C6_Step]_vars

(***************************************************************************)
(* C7: set_option is idempotent: a second set_option(n, v) with the same   *)
(* accepted v right after a successful one succeeds and leaves the         *)
(* registry exactly as the first call left it, with n's value v.           *)
(***************************************************************************)
C7_Step ==
    ( /\ call.op = "set_option"
      /\ call.outcome = "ok"
      /\ Accepts(_OPTIONS[call.name].validator, call.val[1])
      /\ call'.op = "set_option"
      /\ call'.name = call.name
      /\ call'.val = call.val )
    => ( /\ _OPTIONS[call.name].value = call.val[1]
         /\ call'.outcome = "ok"
         /\ _OPTIONS' = _OPTIONS
         /\ keys' = keys )

C7_SetIdempotent == [][C7_Step]_vars

\* a successful set_option(n, v) on an entry that already held v, v not the default
C7_Witness ==
    /\ call.op = "set_option"
    /\ call.outcome = "ok"
    /\ call.before = call.val
    /\ _OPTIONS[call.name].default # call.val[1]
    /\ Accepts(_OPTIONS[call.name].validator, call.val[1])

(***************************************************************************)
(* C8: describe_option(n) on a registered n succeeds and prints n, its     *)
(* description, its default and its current value; for                     *)
(* default_integer_bitwidth with default 64, after set_option(.., 32) and  *)
(* then a rejected set_option(.., 16), it prints Default: 64 and           *)
(* Current: 32.                                                            *)
(***************************************************************************)
C8_Step ==
    ( /\ call.op = "set_option"
      /\ call.name = INT_NAME
      /\ call.val = <<16>>
      /\ call.before = <<32>>
      /\ _OPTIONS[INT_NAME].default = 64
      /\ ~Accepts(_OPTIONS[INT_NAME].validator, 16)
      /\ call'.op = "describe_option"
      /\ call'.name = INT_NAME )
    => ( /\ call.outcome = "ValueError"
         /\ call'.outcome = "ok"
         /\ Contains(call'.out, INT_NAME)
         /\ Contains(call'.out, _OPTIONS[INT_NAME].description)
         /\ Contains(call'.out, "Default: 64")
         /\ Contains(call'.out, "Current: 32") )

C8_DescribeAfterRejectedSet == [][C8_Step]_vars

(***************************************************************************)
(* C9: registering an already registered name n with a default its         *)
(* validator accepts succeeds and replaces n's entry: default and value    *)
(* are the new default, description and validator the new ones; n is held  *)
(* once, and every other entry is unchanged.                               *)
(***************************************************************************)
C9_Step ==
    ( /\ call'.op = "_register_option"
      /\ call'.name \in DOMAIN _OPTIONS
      /\ Accepts(call'.validator, call'.val[1]) )
    => ( /\ call'.outcome = "ok"
         /\ DOMAIN _OPTIONS' = DOMAIN _OPTIONS
         /\ _OPTIONS'[call'.name] =
              [default |-> call'.val[1], value |-> call'.val[1],
               description |-> call'.description,
               validator |-> call'.validator]
         /\ \A m \in DOMAIN _OPTIONS \ {call'.name} : _OPTIONS'[m] = _OPTIONS[m]
         /\ keys' = keys
         /\ Cardinality({i \in 1..Len(keys') : keys'[i] = call'.name}) = 1 )

C9_RegisterOverwrites == [][C9_Step]_vars

\* a register has just replaced an entry whose value had been set to 32, with a
\* different default, description and validator
C9_Witness ==
    /\ call.op = "_register_option"
    /\ call.outcome = "ok"
    /\ call.name = INT_NAME
    /\ call.before = <<32>>
    /\ _OPTIONS[INT_NAME] =
         [default |-> 16, value |-> 16, description |-> FLOAT_DESCRIPTION,
          validator |-> RAISE_UNLESS_IN_16_32]

(***************************************************************************)
(* C10: set_option(n, v) changes at most the value field of n: the names,  *)
(* n's default, description and validator and every other entry stay;      *)
(* get_option and describe_option change nothing.  So from the state after *)
(* import, get/set/describe calls keep the names at the two built-in ones  *)
(* and both defaults at 64.                                                *)
(***************************************************************************)
C10_Step ==
    /\ call'.op = "set_option"
       => ( /\ DOMAIN _OPTIONS' = DOMAIN _OPTIONS
            /\ keys' = keys
            /\ \A m \in DOMAIN _OPTIONS :
                 /\ _OPTIONS'[m].default = _OPTIONS[m].default
                 /\ _OPTIONS'[m].description = _OPTIONS[m].description
                 /\ _OPTIONS'[m].validator = _OPTIONS[m].validator
                 /\ m # call'.name => _OPTIONS'[m] = _OPTIONS[m] )
    /\ call'.op \in {"get_option", "describe_option"}
       => (_OPTIONS' = _OPTIONS /\ keys' = keys)
    /\ (call'.op \in PUBLIC_OPS /\ BuiltinsOnly) => BuiltinsOnly'

C10_Frame == (call.op = "import" => BuiltinsOnly) /\ [][C10_Step]_vars

\* a set_option has just changed the value of a built-in option away from its
\* default, in a registry that holds the two built-in options only
C10_Witness ==
    /\ call.op = "set_option"
    /\ call.outcome = "ok"
    /\ call.before # call.val
    /\ BuiltinsOnly
    /\ _OPTIONS[call.name].value # _OPTIONS[call.name].default

=============================================================================
